---- MODULE Spec2Model ----
(***************************************************************************)
(* The switch / case / default block helpers of handlebars_switch          *)
(* (src/src/switch.rs), rendered by the host engine's sequential walk of   *)
(* a template.  A template is a sequence of elements; an element is raw    *)
(* text or a helper block with parameters and an optional body.  A render  *)
(* is a stack of helper calls, each working through the body it renders.   *)
(***************************************************************************)
EXTENDS Integers, Sequences, FiniteSets, TLC

VARIABLES template, data, stack, rcs, out, status, error, ev, ret, history

vars == <<template, data, stack, rcs, out, status, error, ev, ret, history>>

-----------------------------------------------------------------------------
(* serde_json::Value: a kind and a spelling; equality is equality of both. *)

Null == [kind |-> "Null", v |-> ""]
Bool(b) == [kind |-> "Bool", v |-> IF b THEN "true" ELSE "false"]
Str(s) == [kind |-> "String", v |-> s]
Num(s) == [kind |-> "Number", v |-> s]

(* Option<T>: <<>> is None, <<x>> is Some(x). *)
None == <<>>
Some(x) == <<x>>

\* Value::as_bool under Option::and_then
and_then_as_bool(o) ==
    IF o # None /\ o[1].kind = "Bool" THEN Some(o[1].v = "true") ELSE None

\* Option<bool>::unwrap_or_default
unwrap_or_default(o) == IF o = None THEN FALSE ELSE o[1]

-----------------------------------------------------------------------------
(* Template elements and helper parameters. *)

Text(n) ==
    [el |-> "RawString", text |-> n, name |-> "", params |-> <<>>,
     template |-> None]
Block(name, params, body) ==
    [el |-> "HelperBlock", text |-> 0, name |-> name, params |-> params,
     template |-> body]
Lit(j) == [p |-> "Literal", key |-> "", json |-> j]
Path(k) == [p |-> "Path", key |-> k, json |-> Null]

\* PathAndJson::value(): a literal is itself, a path is looked up in the data
\* context, and a path that is missing there is null.
ParamValue(p, ctx) ==
    IF p.p = "Literal" THEN p.json
    ELSE IF p.key \in DOMAIN ctx THEN ctx[p.key] ELSE Null

-----------------------------------------------------------------------------
(* BlockContext and RenderContext. *)

VarNames == {"match", "@match", "@@match"}
HelperNames == {"case", "default"}

\* the key get_local_var looks a name up under: format!("@{}", name)
AtKey(name) == IF name = "match" THEN "@match" ELSE "@@match"

\* BlockContext::new(); pushed_by records which helper pushed the block
BlockContext_new(by) ==
    [local_variables |-> [n \in VarNames |-> None], pushed_by |-> by]

set_local_var(block, name, value) ==
    [block EXCEPT !.local_variables[name] = Some(value)]

get_local_var(block, name) == block.local_variables[AtKey(name)]

\* RenderContext: blocks is the VecDeque of block scopes, innermost first
push_block(rc, block) == [rc EXCEPT !.blocks = <<block>> \o @]

pop_block(rc) ==
    [rc EXCEPT !.blocks = IF @ = <<>> THEN <<>> ELSE Tail(@)]

\* rc.block_mut(): the innermost block scope, if any
block_mut(rc) == IF rc.blocks = <<>> THEN None ELSE Some(rc.blocks[1])

register_local_helper(rc, name, def) ==
    [rc EXCEPT !.local_helpers[name] = Some(def)]

get_local_helper(rc, name) ==
    IF name \in HelperNames THEN rc.local_helpers[name] ELSE None

CaseHelper(expression_value) ==
    [def |-> "CaseHelper", expression_value |-> expression_value]
DefaultHelper == [def |-> "DefaultHelper", expression_value |-> Null]

\* handlebars.register_helper("switch", ...) beside the engine's own `with`
RegistryHelpers == {"switch", "with"}

\* the render context a render starts with
RootRc == [blocks |-> <<>>, local_helpers |-> [n \in HelperNames |-> None]]

-----------------------------------------------------------------------------
(* The three helpers, as functions of the call and the render context. *)

\* (variant) the flag looked up under the bare name, without the "@"
PrevFoundUnprefixed(block) ==
    unwrap_or_default(and_then_as_bool(block.local_variables["match"]))

\* prev_found of CaseHelper::call and DefaultHelper::call
PrevFound(block) ==
    unwrap_or_default(and_then_as_bool(get_local_var(block, "match")))

\* (variant) every argument value has to be equal, which none fails to be
\* when there are no arguments
AllParamsEqual(self, h, ctx) ==
    \A i \in DOMAIN h.params :
        ParamValue(h.params[i], ctx) = self.expression_value

\* (variant) values compared by their spelling alone, whatever their kind
AnyParamEqualsLoose(self, h, ctx) ==
    \E i \in DOMAIN h.params :
        ParamValue(h.params[i], ctx).v = self.expression_value.v

\* h.params().iter().any(|x| *x.value() == self.expression_value)
AnyParamEquals(self, h, ctx) ==
    \E i \in DOMAIN h.params :
        ParamValue(h.params[i], ctx) = self.expression_value

\* (variant) a matching case that renders without setting the flag
CaseHelper_call_noset(self, h, rc, ctx) ==
    IF block_mut(rc) # None
    THEN IF ~PrevFound(block_mut(rc)[1]) /\ AnyParamEquals(self, h, ctx)
         THEN [rc |-> rc, render |-> TRUE]
         ELSE [rc |-> rc, render |-> FALSE]
    ELSE [rc |-> rc, render |-> FALSE]

\* (variant) a matching case without a body is passed over like a case that
\* does not match
CaseHelper_call_needs_body(self, h, rc, ctx) ==
    IF block_mut(rc) # None
    THEN IF ~PrevFound(block_mut(rc)[1]) /\ AnyParamEquals(self, h, ctx)
            /\ h.template # None
         THEN [rc |-> [rc EXCEPT !.blocks[1] =
                           set_local_var(@, "@match", Bool(TRUE))],
               render |-> TRUE]
         ELSE [rc |-> rc, render |-> FALSE]
    ELSE [rc |-> rc, render |-> FALSE]

\* CaseHelper::call up to the render of its body: the render context it
\* leaves and whether the body is rendered
CaseHelper_call(self, h, rc, ctx) ==
    IF block_mut(rc) # None
    THEN IF ~PrevFound(block_mut(rc)[1]) /\ AnyParamEquals(self, h, ctx)
         THEN [rc |-> [rc EXCEPT !.blocks[1] =
                           set_local_var(@, "@match", Bool(TRUE))],
               render |-> TRUE]
         ELSE [rc |-> rc, render |-> FALSE]
    ELSE [rc |-> rc, render |-> FALSE]

\* (variant) a default that sets the flag when it renders
DefaultHelper_call_sets(h, rc) ==
    IF block_mut(rc) # None
    THEN IF ~PrevFound(block_mut(rc)[1])
         THEN [rc |-> [rc EXCEPT !.blocks[1] =
                           set_local_var(@, "@match", Bool(TRUE))],
               render |-> TRUE]
         ELSE [rc |-> rc, render |-> FALSE]
    ELSE [rc |-> rc, render |-> FALSE]

\* DefaultHelper::call up to the render of its body
DefaultHelper_call(h, rc) ==
    IF block_mut(rc) # None
    THEN IF ~PrevFound(block_mut(rc)[1])
         THEN [rc |-> rc, render |-> TRUE]
         ELSE [rc |-> rc, render |-> FALSE]
    ELSE [rc |-> rc, render |-> FALSE]

\* (variant) a missing parameter read as null instead of an error
SwitchParamOrNull(h) ==
    IF h.params = <<>> THEN Some(Lit(Null)) ELSE Some(h.params[1])

\* h.param(0) of SwitchHelper::call
SwitchParam(h) == IF h.params = <<>> THEN None ELSE Some(h.params[1])

\* (variant) the new scope starts as a copy of the enclosing block scope
SwitchLocalRc_inherit(rc, expression_value) ==
    register_local_helper(
        register_local_helper(
            push_block(rc,
                IF rc.blocks = <<>>
                THEN set_local_var(BlockContext_new("switch"), "@match",
                                   Bool(FALSE))
                ELSE [rc.blocks[1] EXCEPT !.pushed_by = "switch"]),
            "case", CaseHelper(expression_value)),
        "default", DefaultHelper)

\* (variant) a case helper already bound is not shadowed by the new one
SwitchLocalRc_noshadow(rc, expression_value) ==
    register_local_helper(
        IF rc.local_helpers["case"] # None
        THEN push_block(rc,
                 set_local_var(BlockContext_new("switch"), "@match",
                               Bool(FALSE)))
        ELSE register_local_helper(
                 push_block(rc,
                     set_local_var(BlockContext_new("switch"), "@match",
                                   Bool(FALSE))),
                 "case", CaseHelper(expression_value)),
        "default", DefaultHelper)

\* local_rc of SwitchHelper::call: a clone of rc with the new block pushed
\* and the two helpers registered
SwitchLocalRc(rc, expression_value) ==
    register_local_helper(
        register_local_helper(
            push_block(rc,
                set_local_var(BlockContext_new("switch"), "@match",
                              Bool(FALSE))),
            "case", CaseHelper(expression_value)),
        "default", DefaultHelper)

\* (variant) an error of the body's render is dropped and success returned
ResultSwallowed(result) == [ok |-> TRUE, error |-> ""]

\* `result` at the end of SwitchHelper::call: the result of the body's render
SwitchHelper_result(result) == result

\* the value of CaseHelper::call and DefaultHelper::call when they render
\* their body: the result of t.render
BranchHelper_result(result) == result

\* (variant) the helper works on the caller's rc itself, not on a clone
CallerRcAliased(caller_rc, local_rc) == local_rc

\* what the caller's rc is once SwitchHelper::call has returned: the helper
\* worked on its clone, which is popped and dropped
CallerRcAfterSwitch(caller_rc, local_rc) == caller_rc

-----------------------------------------------------------------------------
(* Inputs. *)

MaxBranches == 3

\* the number of renders of one template, one after the other
MaxRenders == 2

Keys == {"state", "s"}

\* the shape of a case or default block of a switch body
CaseShape(args, body) == [name |-> "case", params |-> args, body |-> body]
DefaultShape(body) == [name |-> "default", params |-> <<>>, body |-> body]

BranchShapes ==
    { CaseShape(a, "text") :
        a \in { <<>>, <<Lit(Str("a"))>>, <<Lit(Str("4"))>>, <<Lit(Num("4"))>>,
                <<Lit(Str("a")), Lit(Num("4"))>>, <<Lit(Null)>> } }
    \cup { CaseShape(<<Lit(Str("a"))>>, "none"), DefaultShape("text") }

\* a switch without its parameter, whose render fails
Failing == Block("switch", <<>>, Some(<<Text(99)>>))

\* the branch at a position: its body is absent, its own text, or its own
\* text followed by an element whose render fails
MkBranch(shape, label) ==
    Block(shape.name, shape.params,
          IF shape.body = "none" THEN None
          ELSE IF shape.body = "text" THEN Some(<<Text(label)>>)
          ELSE Some(<<Text(label), Failing>>))

MkBody(shapes, base) ==
    [i \in 1..Len(shapes) |-> MkBranch(shapes[i], base + i)]

StateData ==
    { [k \in {} |-> Null] } \cup
    { [k \in {"state"} |-> v] : v \in {Str("a"), Str("4"), Num("4")} }

\* one switch whose body is case and default blocks, each with its own text;
\* the switch may lack its parameter or its body
FlatInput ==
    \/ \E k \in 0..MaxBranches : \E b \in [1..k -> BranchShapes] :
       \E d \in StateData :
          /\ template = <<Block("switch", <<Path("state")>>, Some(MkBody(b, 0)))>>
          /\ data = d
    \/ \E p \in { <<>>, <<Path("state")>> } :
       \E t \in { None, Some(MkBody(<<CaseShape(<<Lit(Str("a"))>>, "text"),
                                      DefaultShape("text")>>, 0)) } :
       \E d \in StateData :
          /\ template = <<Block("switch", p, t), Text(20)>>
          /\ data = d

SmallShapes ==
    { CaseShape(<<Lit(Str("a"))>>, "text"), CaseShape(<<Lit(Num("4"))>>, "text"),
      DefaultShape("text"), CaseShape(<<Lit(Str("a"))>>, "fail") }

TailShapes ==
    { CaseShape(<<Lit(Str("a"))>>, "text"), CaseShape(<<Lit(Num("4"))>>, "text"),
      DefaultShape("text") }

LeadShapes == { CaseShape(<<Lit(Str("a"))>>, "text"), DefaultShape("text") }

NestedData ==
    { [k \in {"state"} |-> Str("a")] } \cup
    { [k \in Keys |-> IF k = "state" THEN Str("a") ELSE w] :
        w \in {Str("a"), Num("4")} } \cup
    { [k \in Keys |-> IF k = "state" THEN Num("4") ELSE Str("a")] }

\* a switch on s placed in a case body, in a default body, in a with body or
\* directly in the body of a switch on state, with branches before and after
InnerSwitch(b) == Block("switch", <<Path("s")>>, Some(MkBody(b, 30)))

Wrapped(inner) ==
    { Block("case", <<Lit(Str("a"))>>, Some(<<Text(10), inner, Text(11)>>)),
      Block("default", <<>>, Some(<<Text(10), inner, Text(11)>>)),
      Block("with", <<Lit(Str("a"))>>, Some(<<Text(10), inner, Text(11)>>)),
      inner }

NestedInput ==
    \E k \in 0..(MaxBranches - 1) : \E b \in [1..k -> SmallShapes] :
    \E w \in Wrapped(InnerSwitch(b)) :
    \E m, n \in 0..1 : \E pre \in [1..m -> LeadShapes] :
    \E post \in [1..n -> TailShapes] : \E d \in NestedData :
       /\ template = <<Block("switch", <<Path("state")>>,
                             Some(MkBody(pre, 0) \o <<w>> \o MkBody(post, 20)))>>
       /\ data = d

\* a switch followed by a sibling: another switch on the same value, or a
\* case or default block; the two stand outside every switch or in the body
\* of a case block of a switch
SiblingInput ==
    \E m, n \in 0..1 : \E b \in [1..m -> SmallShapes] :
    \E c \in [1..n -> SmallShapes] :
    \E y \in { Block("case", <<Lit(Str("a"))>>, Some(<<Text(20)>>)),
               Block("default", <<>>, Some(<<Text(20)>>)),
               Block("default", <<Lit(Str("a"))>>, Some(<<Text(20)>>)),
               Block("switch", <<Path("state")>>, Some(MkBody(c, 30))) } :
    \E d \in StateData :
       LET pair == <<Block("switch", <<Path("state")>>, Some(MkBody(b, 0))), y>>
       IN /\ template \in
                { pair,
                  <<Block("switch", <<Path("state")>>,
                          Some(<<Block("case", <<Lit(Str("a"))>>,
                                       Some(<<Text(10)>> \o pair))>>))>> }
          /\ data = d

\* case and default blocks inside a with block of a switch body
ScopedInput ==
    \E m, n \in 0..1 : \E k \in 0..2 : \E pre \in [1..m -> LeadShapes] :
    \E w \in [1..k -> SmallShapes] : \E post \in [1..n -> SmallShapes] :
    \E d \in StateData :
       /\ template = <<Block("switch", <<Path("state")>>,
                             Some(MkBody(pre, 0)
                                  \o <<Block("with", <<Lit(Str("a"))>>,
                                             Some(MkBody(w, 10)))>>
                                  \o MkBody(post, 20)))>>
       /\ data = d

\* a case or default block written directly in the body of a case or default
\* block of a switch body
DirectInput ==
    \E m, n \in 0..1 : \E pre \in [1..m -> LeadShapes] :
    \E post \in [1..n -> TailShapes] : \E x \in TailShapes :
    \E name \in {"case", "default"} : \E d \in StateData :
       /\ template =
             <<Block("switch", <<Path("state")>>,
                     Some(MkBody(pre, 0)
                          \o <<Block(name,
                                     IF name = "case" THEN <<Lit(Str("a"))>>
                                     ELSE <<>>,
                                     Some(<<Text(10), MkBranch(x, 12),
                                            Text(11)>>))>>
                          \o MkBody(post, 20)))>>
       /\ data = d

\* values of three kinds, spelled alike in pairs
KindValues == { Str("4"), Num("4"), Str("true"), Bool(TRUE) }

\* a switch over a case with at most one value, a case with up to two values
\* and a default, the values and the switch value of any of the kinds
KindInput ==
    \E m \in 0..1 : \E n \in 0..2 : \E a \in [1..m -> KindValues] :
    \E b \in [1..n -> KindValues] : \E v \in KindValues :
       /\ template =
             <<Block("switch", <<Path("state")>>,
                     Some(<<Block("case", [i \in 1..m |-> Lit(a[i])],
                                  Some(<<Text(1)>>)),
                            Block("case", [i \in 1..n |-> Lit(b[i])],
                                  Some(<<Text(2)>>)),
                            Block("default", <<>>, Some(<<Text(3)>>))>>))>>
       /\ data = [k \in {"state"} |-> v]

-----------------------------------------------------------------------------
(* The render. *)

NoEv ==
    [op |-> "none", ok |-> TRUE, h |-> Text(0), prev_found |-> FALSE,
     matched |-> FALSE, rendered |-> FALSE, scope_before |-> FALSE,
     scope_after |-> FALSE, rc_same |-> TRUE, found_after |-> FALSE,
     within |-> "none", value |-> Null, had_block |-> FALSE]

Frame(helper, todo, saved) ==
    [helper |-> helper, todo |-> todo, saved_rc |-> saved]

\* the start of a render: a new render context and nothing written
NoRet ==
    [op |-> "none", failed |-> FALSE, error |-> "", before |-> RootRc,
     after |-> RootRc]

RenderStart ==
    /\ stack = <<Frame("render", template, RootRc)>>
    /\ rcs = <<RootRc>>
    /\ out = <<>>
    /\ status = "rendering"
    /\ error = ""
    /\ ev = NoEv
    /\ ret = NoRet
    /\ history = <<>>

Init ==
    /\ (FlatInput \/ NestedInput \/ SiblingInput \/ ScopedInput
        \/ DirectInput \/ KindInput)
    /\ RenderStart

\* the templates that are rendered more than once
InitAgain ==
    /\ (SiblingInput \/ ScopedInput \/ DirectInput)
    /\ RenderStart

top == stack[Len(stack)]
rc == rcs[Len(rcs)]
h == Head(top.todo)

Ready == status = "rendering" /\ top.todo # <<>>

\* the result of the render of a body that has ended, and the state of the
\* render that a returned result leaves
BodyResult == [ok |-> status = "rendering", error |-> error]
StatusOf(result) == IF result.ok THEN "rendering" ELSE "unwinding"
Ended == status = "unwinding" \/ top.todo = <<>>

\* the caller moves past the element and, when there is a body to render,
\* the helper's render of it begins
Enter(helper, render) ==
    LET rest == [stack EXCEPT ![Len(stack)].todo = Tail(@)]
    IN IF render /\ h.template # None
       THEN Append(rest, Frame(helper, h.template[1], rc))
       ELSE rest

\* the match flag of the innermost block a switch pushed
SwitchFlag(c) ==
    LET own == { i \in DOMAIN c.blocks : c.blocks[i].pushed_by = "switch" }
    IN IF own = {} THEN FALSE
       ELSE LET i == CHOOSE m \in own : \A n \in own : m <= n
            IN c.blocks[i].local_variables["@match"] = Some(Bool(TRUE))

RenderRawString ==
    /\ Ready /\ h.el = "RawString"
    /\ out' = Append(out, h.text)
    /\ stack' = [stack EXCEPT ![Len(stack)].todo = Tail(@)]
    /\ UNCHANGED <<history, template, data, rcs, status, error, ev, ret>>

\* render_helper: the name is bound neither locally nor in the registry
HelperNotDefined ==
    /\ Ready /\ h.el = "HelperBlock"
    /\ get_local_helper(rc, h.name) = None
    /\ h.name \notin RegistryHelpers
    /\ status' = "unwinding"
    /\ error' = "Helper not defined"
    /\ ev' = [NoEv EXCEPT !.op = "undefined", !.ok = FALSE, !.h = h]
    /\ UNCHANGED <<history, template, data, stack, rcs, out, ret>>

IsSwitchCall ==
    /\ Ready /\ h.el = "HelperBlock" /\ h.name = "switch"
    /\ get_local_helper(rc, h.name) = None

\* SwitchHelper::call without a parameter: the error return
SwitchParamNotFound ==
    /\ IsSwitchCall
    /\ SwitchParam(h) = None
    /\ status' = "unwinding"
    /\ error' = "Param not found for helper switch"
    /\ ev' = [NoEv EXCEPT !.op = "switch", !.ok = FALSE, !.h = h,
                          !.scope_before = SwitchFlag(rc),
                          !.scope_after = SwitchFlag(rc)]
    /\ UNCHANGED <<history, template, data, stack, rcs, out>>
    /\ ret' = [op |-> "error", failed |-> TRUE, error |-> error', before |-> rc,
               after |-> rcs'[Len(rcs')]]

\* SwitchHelper::call up to the render of its body
SwitchCall ==
    /\ IsSwitchCall
    /\ SwitchParam(h) # None
    /\ LET expression_value == ParamValue(SwitchParam(h)[1], data)
           local_rc == SwitchLocalRc(rc, expression_value)
       IN /\ rcs' = Append(rcs, local_rc)
          /\ stack' = Append([stack EXCEPT ![Len(stack)].todo = Tail(@)],
                             Frame("switch",
                                   IF h.template = None THEN <<>>
                                   ELSE h.template[1], rc))
          /\ ev' = [NoEv EXCEPT !.op = "switch", !.h = h,
                                !.scope_before = SwitchFlag(rc),
                                !.scope_after = SwitchFlag(local_rc)]
    /\ UNCHANGED <<history, template, data, out, status, error, ret>>

\* SwitchHelper::call from the end of its body's render: local_rc.pop_block()
\* and the return of the body's result
SwitchReturn ==
    /\ status # "done" /\ top.helper = "switch" /\ Ended
    /\ rcs' = [SubSeq(rcs, 1, Len(rcs) - 1) EXCEPT ![Len(rcs) - 1] =
                  CallerRcAfterSwitch(@, pop_block(rc))]
    /\ stack' = SubSeq(stack, 1, Len(stack) - 1)
    /\ LET result == SwitchHelper_result(BodyResult)
       IN /\ status' = StatusOf(result)
          /\ error' = result.error
          /\ ret' = [op |-> "return", failed |-> ~result.ok,
                     error |-> result.error, before |-> top.saved_rc,
                     after |-> rcs'[Len(rcs')]]
    /\ UNCHANGED <<history, template, data, out, ev>>

BoundTo(def) ==
    /\ Ready /\ h.el = "HelperBlock"
    /\ get_local_helper(rc, h.name) # None
    /\ get_local_helper(rc, h.name)[1].def = def

FrontPrevFound(c) ==
    IF block_mut(c) = None THEN FALSE ELSE PrevFound(block_mut(c)[1])

CaseCall ==
    /\ BoundTo("CaseHelper")
    /\ LET self == get_local_helper(rc, h.name)[1]
           res == CaseHelper_call(self, h, rc, data)
       IN /\ rcs' = [rcs EXCEPT ![Len(rcs)] = res.rc]
          /\ stack' = Enter("case", res.render)
          /\ ev' = [op |-> "case", ok |-> TRUE, h |-> h,
                    prev_found |-> FrontPrevFound(rc),
                    matched |-> AnyParamEquals(self, h, data),
                    rendered |-> res.render,
                    scope_before |-> SwitchFlag(rc),
                    scope_after |-> SwitchFlag(res.rc),
                    rc_same |-> res.rc = rc,
                    found_after |-> FrontPrevFound(res.rc),
                    within |-> top.helper,
                    value |-> self.expression_value,
                    had_block |-> block_mut(rc) # None]
    /\ UNCHANGED <<history, template, data, out, status, error, ret>>

DefaultCall ==
    /\ BoundTo("DefaultHelper")
    /\ LET res == DefaultHelper_call(h, rc)
       IN /\ rcs' = [rcs EXCEPT ![Len(rcs)] = res.rc]
          /\ stack' = Enter("default", res.render)
          /\ ev' = [op |-> "default", ok |-> TRUE, h |-> h,
                    prev_found |-> FrontPrevFound(rc),
                    matched |-> FALSE,
                    rendered |-> res.render,
                    scope_before |-> SwitchFlag(rc),
                    scope_after |-> SwitchFlag(res.rc),
                    rc_same |-> res.rc = rc,
                    found_after |-> FrontPrevFound(res.rc),
                    within |-> top.helper, value |-> Null,
                    had_block |-> block_mut(rc) # None]
    /\ UNCHANGED <<history, template, data, out, status, error, ret>>

\* the return of CaseHelper::call or DefaultHelper::call with the result of
\* the body's render
BranchReturn ==
    /\ status # "done" /\ top.helper \in {"case", "default"} /\ Ended
    /\ stack' = SubSeq(stack, 1, Len(stack) - 1)
    /\ LET result == BranchHelper_result(BodyResult)
       IN /\ status' = StatusOf(result)
          /\ error' = result.error
          /\ ret' = [op |-> "branch", failed |-> ~result.ok,
                     error |-> result.error, before |-> rc, after |-> rc]
    /\ UNCHANGED <<history, template, data, rcs, out, ev>>

\* a block helper of the engine that pushes a block scope of its own around
\* its body
WithCall ==
    /\ Ready /\ h.el = "HelperBlock" /\ h.name = "with"
    /\ get_local_helper(rc, h.name) = None
    /\ rcs' = [rcs EXCEPT ![Len(rcs)] = push_block(@, BlockContext_new("with"))]
    /\ stack' = Append([stack EXCEPT ![Len(stack)].todo = Tail(@)],
                       Frame("with",
                             IF h.template = None THEN <<>>
                             ELSE h.template[1], rc))
    /\ ev' = [NoEv EXCEPT !.op = "with", !.h = h,
                          !.scope_before = SwitchFlag(rc),
                          !.scope_after = SwitchFlag(rc)]
    /\ UNCHANGED <<history, template, data, out, status, error, ret>>

WithReturn ==
    /\ status # "done" /\ top.helper = "with" /\ Ended
    /\ rcs' = [rcs EXCEPT ![Len(rcs)] = pop_block(@)]
    /\ stack' = SubSeq(stack, 1, Len(stack) - 1)
    /\ UNCHANGED <<history, template, data, out, status, error, ev, ret>>

\* the whole template is rendered, or its render has failed
Finish ==
    /\ status # "done" /\ top.helper = "render" /\ Ended
    /\ status' = "done"
    /\ history' = Append(history, [data |-> data, out |-> out,
                                   error |-> error])
    /\ UNCHANGED <<template, data, stack, rcs, out, error, ev, ret>>

\* the next render of the registered template, with data of its own: the
\* engine starts it with a new render context and a new output
RenderAgain ==
    /\ status = "done" /\ Len(history) < MaxRenders
    /\ data' \in StateData
    /\ stack' = <<Frame("render", template, RootRc)>>
    /\ rcs' = <<RootRc>>
    /\ out' = <<>>
    /\ status' = "rendering"
    /\ error' = ""
    /\ ev' = NoEv
    /\ ret' = NoRet
    /\ UNCHANGED <<template, history>>

Next ==
    \/ RenderRawString
    \/ HelperNotDefined
    \/ SwitchParamNotFound
    \/ SwitchCall
    \/ SwitchReturn
    \/ CaseCall
    \/ DefaultCall
    \/ BranchReturn
    \/ WithCall
    \/ WithReturn
    \/ Finish

Spec == Init /\ [][Next]_vars

\* renders of one registered template one after the other
NextAgain == Next \/ RenderAgain

SpecAgain == InitAgain /\ [][NextAgain]_vars

-----------------------------------------------------------------------------
(* Reading the template and the output. *)

Done == status = "done"
Succeeded == Done /\ error = ""

Range(q) == { q[i] : i \in DOMAIN q }

IsBranch(e) == e.el = "HelperBlock" /\ e.name \in {"case", "default"}
IsSwitch(e) ==
    e.el = "HelperBlock" /\ e.name = "switch" /\ e.params # <<>>
    /\ e.template # None

\* a branch whose body is absent or only its own text
IsPlainBranch(e) ==
    IsBranch(e) /\ (e.template = None \/ Len(e.template[1]) = 1)

BodyOf(e) == IF e.template = None THEN <<>> ELSE e.template[1]

\* the text of a branch body, and whether it has been written
TextOf(e) == IF e.template = None THEN <<>> ELSE <<e.template[1][1].text>>
Labelled(e) == IsBranch(e) /\ e.template # None
Rendered(e) == Labelled(e) /\ e.template[1][1].text \in Range(out)

\* case block e has a value equal to v
Equals(e, v) ==
    e.name = "case" /\ \E k \in DOMAIN e.params : ParamValue(e.params[k], data) = v

\* the case and default blocks written directly in the body of block e
DirectBranches(e) == { j \in DOMAIN BodyOf(e) : IsBranch(BodyOf(e)[j]) }

\* no case or default block of the body of switch sw holds a case or default
\* block directly in its own body
BranchesOfSwitchOnly(sw) ==
    \A i \in DOMAIN BodyOf(sw) :
        IsBranch(BodyOf(sw)[i]) => DirectBranches(BodyOf(sw)[i]) = {}

RECURSIVE SwitchesIn(_)
\* every switch block of a template that has a parameter and a body
SwitchesIn(tpl) ==
    UNION { (IF IsSwitch(tpl[i]) THEN {tpl[i]} ELSE {})
            \cup (IF tpl[i].el = "HelperBlock" /\ tpl[i].template # None
                  THEN SwitchesIn(tpl[i].template[1]) ELSE {}) :
            i \in DOMAIN tpl }

ValueOf(sw) == ParamValue(sw.params[1], data)

\* the positions of a switch body whose case has a value equal to the
\* switch value, and the first of them
Matching(sw) == { i \in DOMAIN BodyOf(sw) : Equals(BodyOf(sw)[i], ValueOf(sw)) }
FirstMatch(sw) == CHOOSE i \in Matching(sw) : \A j \in Matching(sw) : i <= j
Defaults(sw) == { i \in DOMAIN BodyOf(sw) : BodyOf(sw)[i].name = "default" }

\* the template is one switch over plain case and default blocks
FlatTemplate ==
    /\ Len(template) = 1 /\ IsSwitch(template[1])
    /\ \A i \in DOMAIN BodyOf(template[1]) : IsPlainBranch(BodyOf(template[1])[i])

RECURSIVE Concat(_, _, _)
\* the concatenation of f[i] for i from lo to hi
Concat(f, lo, hi) == IF lo > hi THEN <<>> ELSE f[lo] \o Concat(f, lo + 1, hi)

\* position i of a switch body is taken by the first-match rule: the first
\* case with an equal value, or a default with no such case before it
Taken(sw, i) ==
    LET e == BodyOf(sw)[i]
    IN \/ Matching(sw) # {} /\ i = FirstMatch(sw)
       \/ e.name = "default" /\ \A j \in Matching(sw) : i < j

-----------------------------------------------------------------------------
(* C1 *)

\* C1 (as stated): a switch over case blocks and at most one default block
\* outputs exactly the body of the first case with a value equal to the
\* switch value; with no such case it outputs the default body if there is a
\* default, and nothing otherwise.
C1_OutputIsFirstMatchOnly ==
    (Done /\ FlatTemplate /\ Cardinality(Defaults(template[1])) <= 1) =>
        LET sw == template[1]
        IN out = IF Matching(sw) # {} THEN TextOf(BodyOf(sw)[FirstMatch(sw)])
                 ELSE IF Defaults(sw) # {}
                      THEN TextOf(BodyOf(sw)[CHOOSE d \in Defaults(sw) : TRUE])
                      ELSE <<>>

\* C1 (amended): the output is the body of the first case with an equal
\* value, preceded by the default body when the default block stands before
\* that case; with no such case it is the default body if there is a default,
\* and nothing otherwise.
C1_OutputIsFirstMatchAfterDefault ==
    (Done /\ FlatTemplate /\ Cardinality(Defaults(template[1])) <= 1) =>
        LET sw == template[1]
            B == BodyOf(sw)
            first == IF Matching(sw) # {} THEN TextOf(B[FirstMatch(sw)])
                     ELSE <<>>
            lead == IF \E d \in Defaults(sw) : \A j \in Matching(sw) : d < j
                    THEN TextOf(B[CHOOSE d \in Defaults(sw) : TRUE])
                    ELSE <<>>
        IN out = lead \o first

\* two cases have an equal value and a default follows them: only the first
\* case's body is written
C1_Witness ==
    /\ Done /\ FlatTemplate /\ Cardinality(Defaults(template[1])) = 1
    /\ Cardinality(Matching(template[1])) >= 2
    /\ \A d \in Defaults(template[1]) : d > FirstMatch(template[1])
    /\ out = TextOf(BodyOf(template[1])[FirstMatch(template[1])])
    /\ out # <<>>

-----------------------------------------------------------------------------
(* C2 *)

\* C2 (as stated): once a case block of a switch body has rendered, no later
\* case block and no default block of that body renders, so at most one
\* branch body of a switch is rendered.
C2_OneBranchOnly ==
    \A sw \in SwitchesIn(template) :
        \A i, j \in DOMAIN BodyOf(sw) :
            LET B == BodyOf(sw)
            IN (i # j /\ B[i].name = "case" /\ Rendered(B[i]) /\ IsBranch(B[j])
                /\ (j > i \/ B[j].name = "default"))
               => ~Rendered(B[j])

\* C2 (amended): once a case block standing directly in a switch body has
\* rendered, no case or default block standing later directly in that body
\* renders; a default block standing before it may have rendered already.
C2_NoLaterBranch ==
    \A sw \in SwitchesIn(template) :
        \A i, j \in DOMAIN BodyOf(sw) :
            LET B == BodyOf(sw)
            IN (i < j /\ B[i].name = "case" /\ Rendered(B[i]) /\ IsBranch(B[j]))
               => ~Rendered(B[j])

\* a case has rendered, and a later case with an equal value and a later
\* default, both with bodies, have been passed over
C2_Witness ==
    /\ Succeeded
    /\ \E sw \in SwitchesIn(template) :
         \E i, j, d \in DOMAIN BodyOf(sw) :
            LET B == BodyOf(sw)
            IN /\ i < j /\ j < d
               /\ B[i].name = "case" /\ Rendered(B[i])
               /\ Equals(B[j], ValueOf(sw)) /\ Labelled(B[j]) /\ ~Rendered(B[j])
               /\ B[d].name = "default" /\ Labelled(B[d]) /\ ~Rendered(B[d])

-----------------------------------------------------------------------------
(* C3 *)

\* the frames of the switch calls in progress, outermost first
SwitchFrames == SelectSeq(stack, LAMBDA f : f.helper = "switch")

\* C3: a switch's flag starts false whatever the flag of the enclosing switch
\* is; while a switch call is in progress the flag of the scope it was called
\* in keeps the value it had at the call, and has it when the call returns;
\* and the case and default blocks standing directly in a switch body render
\* by the first-match rule on that body alone, whatever switches are nested
\* in it (the bodies of those blocks holding no case or default block of
\* their own).
C3_NestingIndependence ==
    /\ (ev.op = "switch" /\ ev.ok) => ~ev.scope_after
    /\ \A k \in DOMAIN SwitchFrames :
          /\ k < Len(rcs)
          /\ SwitchFlag(rcs[k]) = SwitchFlag(SwitchFrames[k].saved_rc)
    /\ ret.op = "return" => SwitchFlag(ret.after) = SwitchFlag(ret.before)
    /\ Succeeded =>
          \A sw \in { s \in SwitchesIn(template) : BranchesOfSwitchOnly(s) } :
             \A i \in DOMAIN BodyOf(sw) :
                /\ (Labelled(BodyOf(sw)[i]) /\ Rendered(BodyOf(sw)[i]))
                       => Taken(sw, i)
                /\ (sw \in Range(template) /\ Labelled(BodyOf(sw)[i])
                    /\ Taken(sw, i)) => Rendered(BodyOf(sw)[i])

\* an inner switch was entered while the outer flag was true, matched a case
\* of its own, and a case of the outer body after it stayed unrendered
C3_Witness ==
    /\ Succeeded
    /\ Len(template) = 1 /\ IsSwitch(template[1])
    /\ \E i, j \in DOMAIN BodyOf(template[1]) :
          LET B == BodyOf(template[1])
          IN /\ i < j /\ B[i].name = "case" /\ Rendered(B[i])
             /\ Len(BodyOf(B[i])) = 3 /\ IsSwitch(BodyOf(B[i])[2])
             /\ \E m \in DOMAIN BodyOf(BodyOf(B[i])[2]) :
                   Rendered(BodyOf(BodyOf(B[i])[2])[m])
             /\ Equals(B[j], ValueOf(template[1])) /\ Labelled(B[j])
             /\ ~Rendered(B[j])

-----------------------------------------------------------------------------
(* C4 *)

\* the positions of the template itself, outside every switch, that hold a
\* case or default block
LooseBranches == { i \in DOMAIN template : IsBranch(template[i]) }

\* C4: a case or default block reached outside every switch body is bound to
\* no helper, also after a sibling switch has returned; the render then ends
\* with an error and the block's body is not written.
C4_UnboundOutsideSwitch ==
    /\ (Ready /\ Len(stack) = 1 /\ IsBranch(h)) =>
          get_local_helper(rc, h.name) = None
    /\ (Done /\ LooseBranches # {}) =>
          /\ error # ""
          /\ \A i \in LooseBranches : ~Rendered(template[i])

\* a switch rendered a branch and returned, and the case or default block
\* after it failed as undefined
C4_Witness ==
    /\ Done /\ error = "Helper not defined"
    /\ Len(template) = 2 /\ IsSwitch(template[1]) /\ IsBranch(template[2])
    /\ out # <<>> /\ ret.op = "return" /\ ~ret.failed

-----------------------------------------------------------------------------
(* C5 *)

\* C5: a switch without a parameter fails with the parameter error; the call
\* leaves the render context as it was, with no scope pushed and no helper
\* registered, and nothing of its body is written.
C5_MissingParamFails ==
    /\ (ev.op = "switch" /\ ev.h.params = <<>>) =>
          /\ ~ev.ok /\ status # "rendering"
          /\ error = "Param not found for helper switch"
          /\ ret.op = "error" => ret.after = ret.before
          /\ \A i \in DOMAIN BodyOf(ev.h) :
                BodyOf(ev.h)[i].el = "RawString" => BodyOf(ev.h)[i].text \notin Range(out)
    /\ (Done /\ template[1].name = "switch" /\ template[1].params = <<>>) =>
          /\ error = "Param not found for helper switch"
          /\ out = <<>>
          /\ rcs = <<RootRc>>

\* a switch without a parameter, with a body, was reached inside the body of
\* another switch
C5_Witness ==
    /\ ev.op = "switch" /\ ~ev.ok /\ ev.h.template # None
    /\ status = "unwinding" /\ Len(rcs) >= 2 /\ rc.blocks # <<>>
    /\ ret.op = "error"

-----------------------------------------------------------------------------
(* C6 *)

\* C6 (as stated): when the switch parameter is a key missing from the data,
\* no case renders, whatever its literal values, and the output is the bodies
\* of the default blocks.
C6_MissingKeyTakesDefault ==
    (Done /\ FlatTemplate /\ template[1].params[1].p = "Path"
     /\ template[1].params[1].key \notin DOMAIN data) =>
        LET B == BodyOf(template[1])
        IN /\ \A i \in DOMAIN B : B[i].name = "case" => ~Rendered(B[i])
           /\ out = Concat([i \in DOMAIN B |->
                              IF B[i].name = "default" THEN TextOf(B[i])
                              ELSE <<>>], 1, Len(B))

-----------------------------------------------------------------------------
(* C7 *)

\* what a switch body writes by the first-match rule, given what the body of
\* the branch at each position writes
ExpectBody(sw, outs) ==
    Concat([i \in DOMAIN BodyOf(sw) |->
               IF IsBranch(BodyOf(sw)[i]) /\ Taken(sw, i)
               THEN outs[i] ELSE <<>>], 1, Len(BodyOf(sw)))

PlainOuts(sw) == [i \in DOMAIN BodyOf(sw) |-> TextOf(BodyOf(sw)[i])]

\* what a branch body writes: its texts in order, with a switch in it
\* resolved by the first-match rule against that switch's own value
BranchOut(e) ==
    Concat([k \in DOMAIN BodyOf(e) |->
               IF BodyOf(e)[k].el = "RawString" THEN <<BodyOf(e)[k].text>>
               ELSE IF IsSwitch(BodyOf(e)[k])
                    THEN ExpectBody(BodyOf(e)[k], PlainOuts(BodyOf(e)[k]))
                    ELSE <<>>], 1, Len(BodyOf(e)))

\* the template is one switch whose body is case and default blocks; a switch
\* in a branch body has plain branches
NestedTemplate ==
    /\ Len(template) = 1 /\ IsSwitch(template[1])
    /\ \A i \in DOMAIN BodyOf(template[1]) :
          LET e == BodyOf(template[1])[i]
          IN /\ IsBranch(e)
             /\ \A k \in DOMAIN BodyOf(e) :
                   \/ BodyOf(e)[k].el = "RawString"
                   \/ /\ IsSwitch(BodyOf(e)[k])
                      /\ \A m \in DOMAIN BodyOf(BodyOf(e)[k]) :
                            IsPlainBranch(BodyOf(BodyOf(e)[k])[m])

\* C7: the output of a switch whose taken branch holds a nested switch is the
\* branch's texts and the nested switch's output, concatenated in document
\* order, the nested switch resolved by the first-match rule against its own
\* value (nothing when it has no matching case and no default).
C7_NestedConcatenation ==
    (Succeeded /\ NestedTemplate) =>
        out = ExpectBody(template[1],
                         [i \in DOMAIN BodyOf(template[1]) |->
                             BranchOut(BodyOf(template[1])[i])])

\* the taken branch wrote its text, the nested switch's case and its closing
\* text, in that order; and another whose nested switch wrote nothing
C7_Witness ==
    /\ Succeeded /\ NestedTemplate
    /\ \E i \in DOMAIN BodyOf(template[1]) :
          LET e == BodyOf(template[1])[i]
          IN /\ Len(BodyOf(e)) = 3 /\ IsSwitch(BodyOf(e)[2])
             /\ ValueOf(BodyOf(e)[2]) # ValueOf(template[1])
             /\ Len(out) = 3 /\ out[1] = 10 /\ out[3] = 11
             /\ \E m \in DOMAIN BodyOf(BodyOf(e)[2]) :
                   /\ <<out[2]>> = TextOf(BodyOf(BodyOf(e)[2])[m])
                   /\ m > 1

-----------------------------------------------------------------------------
(* C8 *)

\* C8: when a switch call returns, with the result of its body's render or
\* with that render's error, the caller's render context is the one it had
\* at the call: the same block scopes and the same case and default bindings;
\* every switch call in progress holds one render context of its own, and
\* none is left at the end.
C8_ScopesBalanced ==
    /\ ret.op \in {"return", "error"} => ret.after = ret.before
    /\ Len(rcs) = Len(SwitchFrames) + 1
    /\ \A k \in DOMAIN SwitchFrames : rcs[k] = SwitchFrames[k].saved_rc
    /\ Done => rcs = <<RootRc>>

\* a switch nested in a switch body returned with its body's error, to a
\* caller that holds a block scope and bindings of its own
C8_Witness ==
    /\ ret.op = "return" /\ ret.failed
    /\ ret.before.blocks # <<>>
    /\ ret.before.local_helpers["case"] # None
    /\ Len(rcs) = 2 /\ status = "unwinding"

-----------------------------------------------------------------------------
(* C9 *)

\* C9 (as stated): every case and default call reads the flag of the
\* innermost enclosing switch scope, and a case that renders sets that flag,
\* also when a block scope of another helper lies in between.
C9_ReadsAndWritesSwitchScope ==
    ev.op \in {"case", "default"} =>
        /\ ev.prev_found = ev.scope_before
        /\ (ev.op = "case" /\ ev.rendered) => ev.scope_after

-----------------------------------------------------------------------------
(* C10 *)

\* C10: a default call leaves the render context as it is, so the flag it
\* read as false is still false after it has rendered; in a switch over plain
\* case and default blocks every default block before the first case with an
\* equal value renders, however many there are, and that case renders after
\* them.
C10_DefaultLeavesFlag ==
    /\ ev.op = "default" =>
          /\ ev.rc_same /\ ev.scope_after = ev.scope_before
          /\ ev.rendered => (~ev.prev_found /\ ~ev.found_after)
    /\ (Done /\ FlatTemplate) =>
          \A i \in DOMAIN BodyOf(template[1]) :
             LET B == BodyOf(template[1])
             IN (Labelled(B[i]) /\ Taken(template[1], i)) => Rendered(B[i])

\* two default blocks and then a case with an equal value: all three bodies
\* are written, in order
C10_Witness ==
    /\ Done /\ FlatTemplate /\ Len(BodyOf(template[1])) = 3
    /\ BodyOf(template[1])[1].name = "default"
    /\ BodyOf(template[1])[2].name = "default"
    /\ BodyOf(template[1])[3].name = "case"
    /\ out = <<1, 2, 3>>

-----------------------------------------------------------------------------
(* C11 *)

\* the k-th block scope of a render context counted from the outermost, and
\* the match flag it holds
FromBottom(c, k) == c.blocks[Len(c.blocks) - k + 1]
FlagOf(block) == block.local_variables["@match"]

\* the value the case helper bound in a render context was built with
CapturedValue(c) == c.local_helpers["case"][1].expression_value

\* C11: the block scope a switch call pushes holds the flag false; in every
\* step a block scope pushed by a switch stays in its place and its flag
\* either stays as it is or goes from false to true, and it does so only in a
\* case call that finds the flag false and has an argument value equal to the
\* value captured for that scope; no default call and no case call that is
\* skipped or does not match changes it, and it never goes back to false.
C11_FlagMonotone ==
    [][ /\ Len(rcs') = Len(rcs) + 1 =>
             LET b == rcs'[Len(rcs')].blocks[1]
             IN b.pushed_by = "switch" /\ FlagOf(b) = Some(Bool(FALSE))
        /\ \A i \in DOMAIN rcs \cap DOMAIN rcs' :
           \A k \in 1..Len(rcs[i].blocks) :
              (k <= Len(rcs'[i].blocks)
               /\ FromBottom(rcs[i], k).pushed_by = "switch") =>
                 LET b0 == FromBottom(rcs[i], k)
                     b1 == FromBottom(rcs'[i], k)
                 IN /\ b1.pushed_by = "switch"
                    /\ FlagOf(b0) \in {Some(Bool(FALSE)), Some(Bool(TRUE))}
                    /\ FlagOf(b1) # FlagOf(b0) =>
                          /\ FlagOf(b0) = Some(Bool(FALSE))
                          /\ FlagOf(b1) = Some(Bool(TRUE))
                          /\ i = Len(rcs) /\ k = Len(rcs[i].blocks)
                          /\ ev'.op = "case" /\ ~ev'.prev_found
                          /\ \E n \in DOMAIN ev'.h.params :
                                ParamValue(ev'.h.params[n], data)
                                    = CapturedValue(rcs[i])
      ]_vars

\* a case has set the flag of its switch scope, and a default call and then
\* a case call with an equal value that came after it were skipped and left
\* the flag true
C11_Witness ==
    /\ ev.op = "case" /\ ev.prev_found /\ ev.matched /\ ~ev.rendered
    /\ ev.scope_before /\ ev.scope_after /\ ev.rc_same
    /\ Len(rcs) = 2 /\ Len(rc.blocks) = 1
    /\ FlagOf(rc.blocks[1]) = Some(Bool(TRUE))
    /\ Len(template) = 1 /\ Len(BodyOf(template[1])) = 3
    /\ BodyOf(template[1])[2].name = "default"
    /\ Len(top.todo) = 0

-----------------------------------------------------------------------------
(* C12 *)

\* C12: when a case call goes on to render its body the flag is already
\* true; a case or default call made directly from the body of a case block
\* therefore reads the flag true, renders nothing and leaves the render
\* context as it is, no such block is ever being rendered inside a case
\* body, and its text is not in the output.
C12_FlagSetBeforeBody ==
    /\ (ev.op = "case" /\ ev.rendered) => (~ev.prev_found /\ ev.found_after)
    /\ (ev.op \in {"case", "default"} /\ ev.within = "case") =>
          (ev.prev_found /\ ~ev.rendered /\ ev.rc_same)
    /\ \A j \in 2..Len(stack) :
          stack[j - 1].helper = "case" =>
              stack[j].helper \notin {"case", "default"}
    /\ \A sw \in SwitchesIn(template) : \A i \in DOMAIN BodyOf(sw) :
          LET e == BodyOf(sw)[i]
          IN (IsBranch(e) /\ e.name = "case") =>
                \A j \in DirectBranches(e) : ~Rendered(BodyOf(e)[j])

\* a matched case whose body holds, between two texts, a case with an equal
\* value: the two texts are written and the inner case is skipped
C12_Witness ==
    /\ Succeeded /\ Len(template) = 1
    /\ ev.op = "case" /\ ev.within = "case" /\ ev.matched /\ ev.prev_found
    /\ ~ev.rendered
    /\ out = <<10, 11>>

-----------------------------------------------------------------------------
(* C13 *)

RECURSIVE Owners(_, _, _)
\* the values of the innermost switch blocks around the places of element e
\* in template tpl, where cur is the value of the switch around tpl itself
Owners(tpl, cur, e) ==
    UNION { (IF tpl[i] = e THEN {cur} ELSE {})
            \cup (IF tpl[i].el = "HelperBlock" /\ tpl[i].template # None
                  THEN Owners(tpl[i].template[1],
                              IF tpl[i].name = "switch" /\ tpl[i].params # <<>>
                              THEN Some(ValueOf(tpl[i])) ELSE cur,
                              e)
                  ELSE {}) :
            i \in DOMAIN tpl }

\* C13: every case call compares its argument values with the value of the
\* innermost switch block around it in the template, in the body of a nested
\* switch as well as in the outer body after a nested switch has returned;
\* and the value a switch call captured stays the same in its render context
\* for as long as the call lasts.
C13_InnermostCapturedValue ==
    /\ [](ev.op = "case" =>
            /\ Owners(template, None, ev.h) = {Some(ev.value)}
            /\ ev.matched = Equals(ev.h, ev.value))
    /\ [](\A k \in 2..Len(rcs) : rcs[k].local_helpers["case"] # None)
    /\ [][\A k \in 2..Len(rcs) :
             k <= Len(rcs') => CapturedValue(rcs'[k]) = CapturedValue(rcs[k])
         ]_vars

\* the outer value is the string a and the inner value the number 4: a case
\* on 4 of the nested switch has rendered, the nested switch has returned,
\* and a case on 4 that follows in the outer body was compared with a and
\* did not match
C13_Witness ==
    /\ ev.op = "case" /\ ev.h.params = <<Lit(Num("4"))>> /\ ~ev.matched
    /\ ev.value = Str("a") /\ ev.h.template = Some(<<Text(21)>>)
    /\ ret.op = "return" /\ ~ret.failed /\ Len(rcs) = 2
    /\ "s" \in DOMAIN data /\ data["s"] = Num("4")
    /\ \E x \in 31..33 : x \in Range(out)

-----------------------------------------------------------------------------
(* C14 *)

\* the template is two switch blocks side by side, over plain case and
\* default blocks
SiblingSwitches ==
    /\ Len(template) = 2
    /\ \A n \in 1..2 :
          /\ IsSwitch(template[n])
          /\ \A i \in DOMAIN BodyOf(template[n]) :
                IsPlainBranch(BodyOf(template[n])[i])

\* what a switch over plain branches writes by the first-match rule on its
\* own value and body
SwitchOut(sw) == ExpectBody(sw, PlainOuts(sw))

\* C14: the scope of every switch call starts with the flag false, whatever
\* an earlier switch or an earlier render matched; two switch blocks side by
\* side write, one after the other, what each writes by the first-match rule
\* on its own value and body; and two renders of one template with the same
\* data end with the same output and the same result.
C14_NoStateBetweenSwitches ==
    /\ (ev.op = "switch" /\ ev.ok) => ~ev.scope_after
    /\ (Succeeded /\ SiblingSwitches) =>
          out = SwitchOut(template[1]) \o SwitchOut(template[2])
    /\ \A i, j \in DOMAIN history :
          history[i].data = history[j].data => history[i] = history[j]

\* in the second render of two switch blocks side by side, with the data of
\* the first render, the second switch starts after the first has matched
\* and a case of its own matches; both renders wrote both case bodies
C14_Witness ==
    /\ Len(history) = 2 /\ history[1].data = history[2].data
    /\ SiblingSwitches
    /\ history[1].out = <<1, 31>> /\ history[2].out = <<1, 31>>
    /\ Matching(template[1]) # {} /\ Matching(template[2]) # {}

-----------------------------------------------------------------------------
(* C15 *)

\* the error a failed call raised
ErrorOf(e) ==
    IF e.op = "undefined" THEN "Helper not defined"
    ELSE "Param not found for helper switch"

\* C15: from the failure of a call on, the error of the render is the error
\* that call raised: every case, default and switch call whose body's render
\* failed returns that same error, no helper is called and nothing is
\* written after the failure, and the render ends with that error; a body
\* that rendered is returned as a success.
C15_ErrorPassedThrough ==
    /\ [](/\ status = "unwinding" => (~ev.ok /\ error = ErrorOf(ev))
          /\ Done => (error # "" <=> ~ev.ok)
          /\ (Done /\ error # "") => error = ErrorOf(ev)
          /\ ret.op \in {"return", "branch"} =>
                /\ ret.failed <=> ret.error # ""
                /\ ret.failed => (error = ret.error /\ status # "rendering"
                                  /\ ret.error = ErrorOf(ev)))
    /\ [][status = "unwinding" =>
             /\ error' = error /\ out' = out /\ ev' = ev
             /\ status' \in {"unwinding", "done"}
             /\ Len(stack') <= Len(stack)
             /\ Len(stack') < Len(stack) => (ret'.failed /\ ret'.error = error)
         ]_vars

\* a switch without its parameter failed in the body of a case of a switch
\* nested in a case body: the error went up through both case calls and both
\* switch calls, and neither the text after the nested switch nor the branch
\* after the outer case was written
C15_Witness ==
    /\ Done /\ error = "Param not found for helper switch"
    /\ ret.op = "return" /\ ret.failed /\ ret.error = error
    /\ Len(template) = 1 /\ Len(BodyOf(template[1])) = 2
    /\ BodyOf(template[1])[2].name = "default"
    /\ BodyOf(template[1])[1].name = "case"
    /\ out = <<10, 31>>

-----------------------------------------------------------------------------
(* C16 *)

\* the template is a switch block with a parameter and no body, and a text
BodylessSwitch ==
    /\ Len(template) = 2 /\ template[1].el = "HelperBlock"
    /\ template[1].name = "switch" /\ template[1].params # <<>>
    /\ template[1].template = None /\ template[2].el = "RawString"

\* C16: the render of a switch block without a body never fails and writes
\* nothing, so that the text after it is all there is; a case call without a
\* body that finds the flag false and an equal value takes the matching
\* branch and leaves the flag true; and in a switch over plain branches whose
\* first case with an equal value has no body the render succeeds, no case
\* or default block after that case is written, and the output is what the
\* default blocks before it wrote.
C16_MissingBodyIsValid ==
    /\ BodylessSwitch =>
          /\ status # "unwinding" /\ error = ""
          /\ Done => out = <<template[2].text>>
    /\ (ev.op = "case" /\ ev.h.template = None /\ ev.matched
        /\ ~ev.prev_found) =>
          (ev.rendered /\ ev.found_after /\ status # "unwinding")
    /\ (Done /\ FlatTemplate /\ Matching(template[1]) # {}) =>
          LET sw == template[1]
              B == BodyOf(sw)
              i == FirstMatch(sw)
          IN B[i].template = None =>
                /\ Succeeded
                /\ \A j \in DOMAIN B : j > i => ~Rendered(B[j])
                /\ out = Concat([j \in DOMAIN B |->
                                    IF j < i /\ B[j].name = "default"
                                    THEN TextOf(B[j]) ELSE <<>>], 1, Len(B))

\* the first case has an equal value and no body; a case with an equal value
\* and a default, both with bodies, follow it, and nothing is written
C16_Witness ==
    /\ Succeeded /\ FlatTemplate /\ Len(BodyOf(template[1])) = 3
    /\ Matching(template[1]) = {1, 2}
    /\ BodyOf(template[1])[1].template = None
    /\ Labelled(BodyOf(template[1])[2])
    /\ BodyOf(template[1])[3].name = "default"
    /\ Labelled(BodyOf(template[1])[3])
    /\ out = <<>>

-----------------------------------------------------------------------------
(* C17 *)

\* two values of the same kind with the same spelling
SameKindAndValue(a, b) == a.kind = b.kind /\ a.v = b.v

\* case block e has an argument of the kind and the spelling of value w
Hit(e, w) ==
    \E k \in DOMAIN e.params : SameKindAndValue(ParamValue(e.params[k], data), w)

\* the template is a switch over two case blocks and a default, all with
\* text bodies, on a value that is a string, a number or a boolean
KindTemplate ==
    /\ FlatTemplate /\ Len(BodyOf(template[1])) = 3
    /\ BodyOf(template[1])[1].name = "case"
    /\ BodyOf(template[1])[2].name = "case"
    /\ BodyOf(template[1])[3].name = "default"
    /\ \A i \in 1..3 : Labelled(BodyOf(template[1])[i])
    /\ ValueOf(template[1]).kind \in {"String", "Number", "Bool"}

\* C17: a case call matches exactly when one of its argument values has the
\* kind and the spelling of the captured value, so that a string does not
\* match the number or the boolean spelled like it, and one equal value
\* among several is enough; a switch over two cases and a default writes the
\* body of the first case with such an argument, and the default body when
\* neither has one.
C17_EqualityWithoutCoercion ==
    /\ ev.op = "case" =>
          /\ ev.matched = Hit(ev.h, ev.value)
          /\ \A k \in DOMAIN ev.h.params :
                ParamValue(ev.h.params[k], data).kind # ev.value.kind =>
                    (ev.matched =>
                        \E n \in DOMAIN ev.h.params :
                            n # k /\ ParamValue(ev.h.params[n], data) = ev.value)
    /\ (Done /\ KindTemplate) =>
          LET B == BodyOf(template[1])
              w == ValueOf(template[1])
          IN /\ Succeeded
             /\ out = IF Hit(B[1], w) THEN TextOf(B[1])
                      ELSE IF Hit(B[2], w) THEN TextOf(B[2])
                      ELSE TextOf(B[3])

\* the switch value is the string "4": the case on the number 4 is passed
\* over and the case on the number 4 and the string "4" is written
C17_Witness ==
    /\ Succeeded /\ KindTemplate /\ ValueOf(template[1]) = Str("4")
    /\ BodyOf(template[1])[1].params = <<Lit(Num("4"))>>
    /\ BodyOf(template[1])[2].params = <<Lit(Num("4")), Lit(Str("4"))>>
    /\ out = <<2>>

-----------------------------------------------------------------------------
(* C18 *)

\* C18: a case call without arguments does not match, whatever the captured
\* value is: it does not render its body, leaves the render context and so
\* the flag as they are, and returns success, the render going on after it;
\* the text of a case block without arguments in a switch body is never
\* written.
C18_NoArgumentsNoMatch ==
    /\ (ev.op = "case" /\ ev.h.params = <<>>) =>
          /\ ~ev.matched /\ ~ev.rendered /\ ev.rc_same
          /\ ev.found_after = ev.prev_found
          /\ ev.scope_after = ev.scope_before
          /\ ev.ok /\ status # "unwinding" /\ error = ""
    /\ \A sw \in SwitchesIn(template) : \A i \in DOMAIN BodyOf(sw) :
          LET e == BodyOf(sw)[i]
          IN (IsBranch(e) /\ e.name = "case" /\ e.params = <<>>)
                => ~Rendered(e)

\* a case without arguments and a default, in a switch on a key the data
\* lacks: the case was passed over with the flag false and the default body
\* is the output
C18_Witness ==
    /\ Succeeded /\ FlatTemplate /\ Len(BodyOf(template[1])) = 2
    /\ BodyOf(template[1])[1].name = "case"
    /\ BodyOf(template[1])[1].params = <<>>
    /\ Labelled(BodyOf(template[1])[1])
    /\ BodyOf(template[1])[2].name = "default"
    /\ ValueOf(template[1]) = Null
    /\ ev.op = "default" /\ ~ev.prev_found
    /\ out = <<2>>

-----------------------------------------------------------------------------
(* C19 *)

\* C19: every render context in which a switch has bound case or default
\* holds at least one block scope, and every call of the case helper and of
\* the default helper found one: the branch of either helper for a render
\* context without block scopes is never taken.
C19_ScopeStackNonEmpty ==
    /\ \A k \in DOMAIN rcs :
          (\E n \in HelperNames : get_local_helper(rcs[k], n) # None)
              => block_mut(rcs[k]) # None
    /\ ev.op \in {"case", "default"} => ev.had_block

\* a with block in a switch body has returned and its block scope is popped:
\* the case that follows it is called with the one block scope of the switch
C19_Witness ==
    /\ ev.op = "case" /\ ev.had_block /\ ev.within = "switch"
    /\ Len(rcs) = 2 /\ Len(rc.blocks) = 1
    /\ rc.blocks[1].pushed_by = "switch"
    /\ \E i \in DOMAIN BodyOf(template[1]) :
          /\ BodyOf(template[1])[i].name = "with"
          /\ i < Len(BodyOf(template[1]))
          /\ BodyOf(template[1])[i + 1] = ev.h

====
